---------------------------- MODULE Spec2Model ----------------------------
(***************************************************************************)
(* A model of Froststrap's mod-generator: src/src/main.py (the command     *)
(* line tool that recolors TTF fonts into single-color COLR fonts and      *)
(* deploys them) and src/src/platform.py (the deployment path helpers).    *)
(*                                                                         *)
(* Python strings are sequences of one-character strings, so that strip,   *)
(* lstrip, lower, endswith, slicing and int(_, 16) are computed and not    *)
(* assumed.  A path is the sequence of its parts (pathlib's .parts), each  *)
(* part a string in that sense; an absolute path starts with the anchor    *)
(* part "/".                                                               *)
(***************************************************************************)
EXTENDS Integers, Sequences, FiniteSets, TLC

VARIABLES
    \* hex_to_rgb called on its own
    hexIn, hexOut,
    \* the font recolorer's table construction on its own
    fontIn, fontColor, fontOut,
    \* platform.py's path resolution
    plat, envLocal, pBoot, pMod, pFontDir, pRootDir, pMainDest, pMainJson,
    \* a run of main.py
    argColor, argBoot, argPath, rootIsDir, localAppData, files,
    pc, rgb, bootstrapper, idx, count, invoked, fontsRead, saved, copied,
    reported, manifestTriggers, writeCalls, manifests, exitStatus

hexVars  == <<hexIn, hexOut>>
fontVars == <<fontIn, fontColor, fontOut>>
pathVars == <<plat, envLocal, pBoot, pMod, pFontDir, pRootDir, pMainDest, pMainJson>>
runVars  == <<argColor, argBoot, argPath, rootIsDir, localAppData, files,
              pc, rgb, bootstrapper, idx, count, invoked, fontsRead, saved,
              copied, reported, manifestTriggers, writeCalls, manifests,
              exitStatus>>
vars == <<hexVars, fontVars, pathVars, runVars>>

(***************************************************************************)
(* An optional value (a Python value that may be None, a result that may   *)
(* be an exception) is a set with at most one element: Nothing is None.    *)
(***************************************************************************)
Nothing == {}
Some(x) == {x}
The(opt) == CHOOSE x \in opt : TRUE

-----------------------------------------------------------------------------
(* Bounds of the model *)

\* the longest --color string hex_to_rgb is applied to
MaxLen == 7
\* the most glyphs in a font's glyph order
MaxGlyphs == 3
\* the most files the directory walk yields
MaxFiles == 2

-----------------------------------------------------------------------------
(* Python string operations *)

UpperLetters ==
    <<"A","B","C","D","E","F","G","H","I","J","K","L","M",
      "N","O","P","Q","R","S","T","U","V","W","X","Y","Z">>
LowerLetters ==
    <<"a","b","c","d","e","f","g","h","i","j","k","l","m",
      "n","o","p","q","r","s","t","u","v","w","x","y","z">>
DecimalDigits == <<"0","1","2","3","4","5","6","7","8","9">>
Whitespace == {" ", "\t", "\n", "\r"}

\* str.lower() on one character
LowerChar(c) ==
    IF \E i \in 1..26 : UpperLetters[i] = c
    THEN LowerLetters[CHOOSE i \in 1..26 : UpperLetters[i] = c]
    ELSE c

\* str.lower()
Lower(s) == [i \in 1..Len(s) |-> LowerChar(s[i])]

\* s[a:b] with 0 <= a <= b, Python's half-open slice
Slice(s, a, b) ==
    LET hi == IF b > Len(s) THEN Len(s) ELSE b
    IN  IF a >= hi THEN <<>> ELSE SubSeq(s, a + 1, hi)

\* str.lstrip(chars): drop the leading characters that are in the set
RECURSIVE LStrip(_, _)
LStrip(s, chars) ==
    IF s # <<>> /\ Head(s) \in chars THEN LStrip(Tail(s), chars) ELSE s

RECURSIVE RStrip(_, _)
RStrip(s, chars) ==
    IF s # <<>> /\ s[Len(s)] \in chars
    THEN RStrip(SubSeq(s, 1, Len(s) - 1), chars)
    ELSE s

\* str.strip()
Strip(s) == RStrip(LStrip(s, Whitespace), Whitespace)

\* str.endswith(suffix)
EndsWith(s, suffix) ==
    /\ Len(s) >= Len(suffix)
    /\ SubSeq(s, Len(s) - Len(suffix) + 1, Len(s)) = suffix

IsHexDigit(c) ==
    \/ \E i \in 1..10 : DecimalDigits[i] = c
    \/ \E i \in 1..6 : LowerLetters[i] = LowerChar(c)

\* the value of one hexadecimal digit
HexVal(c) ==
    IF \E i \in 1..10 : DecimalDigits[i] = c
    THEN (CHOOSE i \in 1..10 : DecimalDigits[i] = c) - 1
    ELSE (CHOOSE i \in 1..6 : LowerLetters[i] = LowerChar(c)) + 9

RECURSIVE DigitsValue(_)
DigitsValue(s) ==
    IF s = <<>> THEN 0
    ELSE 16 * DigitsValue(SubSeq(s, 1, Len(s) - 1)) + HexVal(s[Len(s)])

(***************************************************************************)
(* int(s, 16) as CPython parses it: surrounding whitespace is dropped, one *)
(* sign is accepted, then an optional 0x / 0X prefix, then at least one    *)
(* hexadecimal digit.  (Underscores between digits are accepted by Python  *)
(* too; no slice of two characters can hold a valid one, so they count as  *)
(* invalid characters here.)  The result is Nothing for a ValueError.      *)
(***************************************************************************)
PyInt16(s) ==
    LET t      == Strip(s)
        signed == t # <<>> /\ t[1] \in {"+", "-"}
        u      == IF signed THEN Tail(t) ELSE t
        pre    == Len(u) >= 2 /\ u[1] = "0" /\ u[2] \in {"x", "X"}
        d      == IF pre THEN SubSeq(u, 3, Len(u)) ELSE u
    IN  IF d = <<>> \/ \E i \in 1..Len(d) : ~IsHexDigit(d[i])
        THEN Nothing
        ELSE IF signed /\ t[1] = "-"
             THEN Some(0 - DigitsValue(d))
             ELSE Some(DigitsValue(d))

-----------------------------------------------------------------------------
(* main.py: hex_to_rgb *)

HexToRgbSwapped(hex_str) ==
    LET h == LStrip(Strip(hex_str), {"#"})
        r == PyInt16(Slice(h, 0, 2))
        g == PyInt16(Slice(h, 4, 6))
        b == PyInt16(Slice(h, 2, 4))
    IN  IF Len(h) # 6
        THEN [ok |-> FALSE, error |-> "length"]
        ELSE IF r = Nothing \/ g = Nothing \/ b = Nothing
             THEN [ok |-> FALSE, error |-> "hexchars"]
             ELSE [ok |-> TRUE, value |-> <<The(r), The(g), The(b)>>]

\* hex_to_rgb(hex_str): the tuple returned, or the ValueError raised
hex_to_rgb(hex_str) ==
    LET h == LStrip(Strip(hex_str), {"#"})
        r == PyInt16(Slice(h, 0, 2))
        g == PyInt16(Slice(h, 2, 4))
        b == PyInt16(Slice(h, 4, 6))
    IN  IF Len(h) # 6
        THEN [ok |-> FALSE, error |-> "length"]
        ELSE IF r = Nothing \/ g = Nothing \/ b = Nothing
             THEN [ok |-> FALSE, error |-> "hexchars"]
             ELSE [ok |-> TRUE, value |-> <<The(r), The(g), The(b)>>]

\* BOOTSTRAPPERS and the other string literals of the two files
sBloxstrap == <<"B", "l", "o", "x", "s", "t", "r", "a", "p">>
sFishstrap == <<"F", "i", "s", "h", "s", "t", "r", "a", "p">>
sFroststrap == <<"F", "r", "o", "s", "t", "s", "t", "r", "a", "p">>
sLuczystrap == <<"L", "u", "c", "z", "y", "s", "t", "r", "a", "p">>
sLunastrap == <<"L", "u", "n", "a", "s", "t", "r", "a", "p">>
sSober == <<"S", "o", "b", "e", "r">>
sFroststrapLower == <<"f", "r", "o", "s", "t", "s", "t", "r", "a", "p">>
sModifications == <<"M", "o", "d", "i", "f", "i", "c", "a", "t", "i", "o", "n", "s">>
sExtraContent == <<"E", "x", "t", "r", "a", "C", "o", "n", "t", "e", "n", "t">>
sLuaPackages == <<"L", "u", "a", "P", "a", "c", "k", "a", "g", "e", "s">>
sPackages == <<"P", "a", "c", "k", "a", "g", "e", "s">>
sIndex == <<"_", "I", "n", "d", "e", "x">>
sBuilderIcons == <<"B", "u", "i", "l", "d", "e", "r", "I", "c", "o", "n", "s">>
sFont == <<"F", "o", "n", "t">>
sFontLower == <<"f", "o", "n", "t">>
sBuilderIconsLower == <<"b", "u", "i", "l", "d", "e", "r", "i", "c", "o", "n", "s">>
sDotTtf == <<".", "t", "t", "f">>
sDotOtf == <<".", "o", "t", "f">>
sLinux == <<"l", "i", "n", "u", "x">>
sWin == <<"w", "i", "n">>

BOOTSTRAPPERS == <<sBloxstrap, sFishstrap, sFroststrap, sLuczystrap, sLunastrap>>

\* str.startswith(prefix)
StartsWith(s, prefix) ==
    /\ Len(s) >= Len(prefix)
    /\ SubSeq(s, 1, Len(prefix)) = prefix

\* Python's truth value of an optional string or path: None and "" are false
Truthy(opt) == opt # Nothing /\ The(opt) # <<>>

-----------------------------------------------------------------------------
(* main.py: canonicalize_bootstrapper *)

RECURSIVE FirstCanonical(_, _)
FirstCanonical(candidates, name_lower) ==
    IF candidates = <<>> THEN Nothing
    ELSE IF Lower(Head(candidates)) = name_lower
         THEN Some(Head(candidates))
         ELSE FirstCanonical(Tail(candidates), name_lower)

\* canonicalize_bootstrapper(name), name an optional string: the canonical
\* name or None returned, or the ValueError raised
canonicalize_bootstrapper(name) ==
    IF ~Truthy(name)
    THEN [ok |-> TRUE, value |-> Nothing]
    ELSE LET found == FirstCanonical(BOOTSTRAPPERS, Lower(Strip(The(name))))
         IN  IF found # Nothing
             THEN [ok |-> TRUE, value |-> found]
             ELSE [ok |-> FALSE, value |-> Nothing]

-----------------------------------------------------------------------------
(* pathlib *)

Anchor == <<"/">>

\* PurePath.name: the last part, "" for the anchor alone or for no part
Name(p) ==
    IF p = <<>> \/ p = <<Anchor>> THEN <<>> ELSE p[Len(p)]

\* PurePath.parent: the anchor and the empty path are their own parents
Parent(p) ==
    IF p = <<>> \/ p = <<Anchor>> THEN p ELSE SubSeq(p, 1, Len(p) - 1)

\* [p] + list(p.parents): p, then each ancestor up to the anchor (or to ".")
RECURSIVE SelfAndParents(_)
SelfAndParents(p) ==
    IF p = <<>> \/ p = <<Anchor>> THEN <<p>>
    ELSE <<p>> \o SelfAndParents(Parent(p))

\* p / segment and os.path.join(p, segment), for a segment that is a single
\* relative name
Join(p, segment) == Append(p, segment)

\* PurePath.suffix of a file name: from its last dot, unless that dot is the
\* first or the last character
Suffix(name) ==
    LET dots == {i \in 1..Len(name) : name[i] = "."}
        i == IF dots = {} THEN 0 ELSE CHOOSE d \in dots : \A e \in dots : e <= d
    IN  IF 1 < i /\ i < Len(name) THEN SubSeq(name, i, Len(name)) ELSE <<>>

\* PurePath.with_suffix(suffix), on the file name
WithSuffix(name, suffix) ==
    SubSeq(name, 1, Len(name) - Len(Suffix(name))) \o suffix

-----------------------------------------------------------------------------
(* main.py: the deployment directories *)

CommonSubpath ==
    <<sExtraContent, sLuaPackages, sPackages, sIndex, sBuilderIcons, sBuilderIcons>>

\* dest_dir of convert_ttf_to_colr
MainDestDir(local_appdata, boot) ==
    <<>> \o local_appdata \o <<boot, sModifications>> \o CommonSubpath \o <<sFont>>

\* json_dir of process_directory
MainJsonDir(local_appdata, boot) ==
    <<>> \o local_appdata \o <<boot, sModifications>> \o CommonSubpath

marker_parts == CommonSubpath

LowerAll(parts) == [i \in 1..Len(parts) |-> Lower(parts[i])]

\* the loop over ancestors: the first one whose last parts are the marker
RECURSIVE FirstMarked(_)
FirstMarked(ancestors) ==
    IF ancestors = <<>> THEN Nothing
    ELSE LET parts == Head(ancestors)
         IN  IF /\ Len(parts) >= Len(marker_parts)
                /\ LowerAll(SubSeq(parts, Len(parts) - Len(marker_parts) + 1, Len(parts)))
                       = LowerAll(marker_parts)
             THEN Some(parts)
             ELSE FirstMarked(Tail(ancestors))

DeriveMarkerOnly(p) ==
    IF /\ Len(p) >= Len(marker_parts)
       /\ LowerAll(SubSeq(p, Len(p) - Len(marker_parts) + 1, Len(p)))
              = LowerAll(marker_parts)
    THEN Some(p)
    ELSE Nothing

\* _derive_buildericons_dir_from_path(target_dir): a path or None
derive_buildericons_dir_from_path(p) ==
    IF Lower(Name(p)) = sFontLower /\ Lower(Name(Parent(p))) = sBuilderIconsLower
    THEN Some(Parent(p))
    ELSE IF Lower(Name(p)) = sBuilderIconsLower
         THEN Some(p)
         ELSE FirstMarked(SelfAndParents(p))

-----------------------------------------------------------------------------
(* platform.py *)

is_linux(platform) == StartsWith(platform, sLinux)
is_windows(platform) == StartsWith(platform, sWin)

\* Path.home()
HomeDir == <<Anchor, <<"h", "o", "m", "e">>, <<"u">>>>

SoberFontDir ==
    HomeDir \o << <<".", "v", "a", "r">>, <<"a", "p", "p">>,
                  <<"o", "r", "g", ".", "v", "i", "n", "e", "g", "a", "r", "h", "q",
                    ".", "S", "o", "b", "e", "r">>,
                  <<"d", "a", "t", "a">>, <<"s", "o", "b", "e", "r">>,
                  <<"a", "s", "s", "e", "t", "_", "o", "v", "e", "r", "l", "a", "y">> >>
        \o CommonSubpath \o <<sFont>>

GetFontDirAnyMod(platform, local_appdata, boot, mod_name) ==
    IF is_linux(platform) /\ boot = sSober
    THEN Some(SoberFontDir)
    ELSE IF is_windows(platform)
         THEN IF ~Truthy(local_appdata)
              THEN Nothing
              ELSE LET base == Join(Join(The(local_appdata), boot), sModifications)
                       base_path == IF Truthy(mod_name)
                                    THEN Join(base, The(mod_name))
                                    ELSE base
                   IN  Some(base_path \o CommonSubpath \o <<sFont>>)
         ELSE Nothing

\* _get_font_dir(bootstrapper, mod_name) on a host with the given
\* sys.platform and LOCALAPPDATA: a path or None
get_font_dir(platform, local_appdata, boot, mod_name) ==
    IF is_linux(platform) /\ boot = sSober
    THEN Some(SoberFontDir)
    ELSE IF is_windows(platform)
         THEN IF ~Truthy(local_appdata)
              THEN Nothing
              ELSE LET base == Join(Join(The(local_appdata), boot), sModifications)
                       base_path == IF Lower(boot) = sFroststrapLower /\ Truthy(mod_name)
                                    THEN Join(base, The(mod_name))
                                    ELSE base
                   IN  Some(base_path \o CommonSubpath \o <<sFont>>)
         ELSE Nothing

\* _get_root_dir(bootstrapper, mod_name)
get_root_dir(platform, local_appdata, boot, mod_name) ==
    LET font_dir == get_font_dir(platform, local_appdata, boot, mod_name)
    IN  IF font_dir = Nothing THEN Nothing ELSE Some(Parent(The(font_dir)))

-----------------------------------------------------------------------------
(* main.py: convert_ttf_to_colr, the tables it builds *)

(***************************************************************************)
(* A font is its glyph order (a sequence of distinct glyph names) and the  *)
(* two tables the recolorer assigns, each absent (Nothing) or present.     *)
(* A dict is a function; dict[key] = value is SetItem.                     *)
(***************************************************************************)
NotDef == ".notdef"
GlyphNames == {NotDef, "A", "B", "space"}

SetItem(dict, key, value) ==
    [k \in (DOMAIN dict) \cup {key} |-> IF k = key THEN value ELSE dict[k]]

EmptyDict == [k \in {} |-> {}]

\* LayerRecord() with name and colorID set
LayerRecord(name, colorID) == [name |-> name, colorID |-> colorID]

LayerMapAllGlyphs(glyph_order, layer_map) ==
    [g \in {glyph_order[i] : i \in 1..Len(glyph_order)} \cup DOMAIN layer_map |->
        <<LayerRecord(g, 0)>>]

\* the loop over glyph_order, from the layer_map built so far
RECURSIVE LayerMap(_, _)
LayerMap(glyph_order, layer_map) ==
    IF glyph_order = <<>> THEN layer_map
    ELSE LET glyph_name == Head(glyph_order)
         IN  IF glyph_name = NotDef
             THEN LayerMap(Tail(glyph_order), layer_map)
             ELSE LayerMap(Tail(glyph_order),
                           SetItem(layer_map, glyph_name,
                                   <<LayerRecord(glyph_name, 0)>>))

\* the font as it is when font.save is called
Recolor(font, rgb_color) ==
    LET my_color == [red |-> rgb_color[1], green |-> rgb_color[2],
                     blue |-> rgb_color[3], alpha |-> 255]
        cpal == [version |-> 0, palettes |-> <<<<my_color>>>>,
                 numPaletteEntries |-> 1]
        colr == [version |-> 0,
                 ColorLayers |-> LayerMap(font.glyphOrder, EmptyDict)]
    IN  [font EXCEPT !.CPAL = Some(cpal), !.COLR = Some(colr)]

\* CPAL is compiled with one unsigned byte per channel: font.save raises for a
\* channel outside 0..255
Compilable(rgb_color) == \A i \in 1..3 : rgb_color[i] \in 0..255

-----------------------------------------------------------------------------
(* The values the variables of one part hold while another part is checked *)

HexIdle == hexIn = <<>> /\ hexOut = Nothing

FontIdle == fontIn = Nothing /\ fontColor = <<0, 0, 0>> /\ fontOut = Nothing

PathIdle ==
    /\ plat = <<>> /\ envLocal = Nothing /\ pBoot = <<>> /\ pMod = Nothing
    /\ pFontDir = Nothing /\ pRootDir = Nothing
    /\ pMainDest = Nothing /\ pMainJson = Nothing

RunIdle ==
    /\ argColor = <<>> /\ argBoot = Nothing /\ argPath = <<>>
    /\ rootIsDir = FALSE /\ localAppData = Nothing /\ files = <<>>
    /\ pc = "idle" /\ rgb = Nothing /\ bootstrapper = Nothing
    /\ idx = 0 /\ count = 0 /\ invoked = <<>> /\ fontsRead = {}
    /\ saved = {} /\ copied = {} /\ reported = Nothing
    /\ manifestTriggers = 0 /\ writeCalls = <<>> /\ manifests = {}
    /\ exitStatus = Nothing

-----------------------------------------------------------------------------
(* hex_to_rgb on every short string *)

\* The characters the --color strings are made of: hexadecimal digits of the
\* three kinds (decimal, upper case, lower case), the prefix, whitespace and
\* a sign.
HexChars == {"0", "B", "f", "#", " ", "-"}

\* every hexadecimal digit
HexDigitChars ==
    {DecimalDigits[i] : i \in 1..10}
        \cup {LowerLetters[i] : i \in 1..6} \cup {UpperLetters[i] : i \in 1..6}

\* hexIn is any string over HexChars of at most MaxLen characters, or six
\* digits xyyzzx over all the hexadecimal digits, with or without the prefix
HexInit ==
    /\ \/ \E n \in 0..MaxLen : hexIn \in [1..n -> HexChars]
       \/ \E x, y, z \in HexDigitChars, prefix \in {<<>>, <<"#">>} :
              hexIn = prefix \o <<x, y, y, z, z, x>>
    /\ hexOut = Nothing
    /\ FontIdle /\ PathIdle /\ RunIdle

\* one call hex_to_rgb(hexIn)
CallHexToRgb ==
    /\ hexOut = Nothing
    /\ hexOut' = Some(hex_to_rgb(hexIn))
    /\ UNCHANGED <<hexIn, fontVars, pathVars, runVars>>

HexNext == CallHexToRgb

SpecHex == HexInit /\ [][HexNext]_vars

-----------------------------------------------------------------------------
(* The recolorer's tables on every small font *)

\* the sequences of distinct glyph names of at most MaxGlyphs glyphs
GlyphOrders ==
    UNION {{o \in [1..n -> GlyphNames] : \A i, j \in 1..n : i # j => o[i] # o[j]}
           : n \in 0..MaxGlyphs}

\* tables a font may hold before it is recolored
OldCPAL ==
    [version |-> 0, numPaletteEntries |-> 2,
     palettes |-> << << [red |-> 1, green |-> 2, blue |-> 3, alpha |-> 255],
                        [red |-> 9, green |-> 9, blue |-> 9, alpha |-> 128] >> >>]
OldCOLR ==
    [version |-> 0,
     ColorLayers |-> SetItem(SetItem(EmptyDict, "A", <<LayerRecord("A", 1)>>),
                             NotDef, <<LayerRecord(NotDef, 0), LayerRecord("A", 1)>>)]

FontColors == {<<0, 0, 139>>, <<255, 0, 0>>, <<18, 52, 86>>}

FontInit ==
    /\ \E o \in GlyphOrders, old \in BOOLEAN :
           fontIn = Some([glyphOrder |-> o,
                          CPAL |-> IF old THEN Some(OldCPAL) ELSE Nothing,
                          COLR |-> IF old THEN Some(OldCOLR) ELSE Nothing])
    /\ fontColor \in FontColors
    /\ fontOut = Nothing
    /\ HexIdle /\ PathIdle /\ RunIdle

\* convert_ttf_to_colr up to font.save: the font is loaded, mutated and saved
ConvertSaves ==
    /\ fontOut = Nothing
    /\ Compilable(fontColor)
    /\ fontOut' = Some([result |-> "saved", font |-> Recolor(The(fontIn), fontColor)])
    /\ UNCHANGED <<fontIn, fontColor, hexVars, pathVars, runVars>>

\* the load or the save raises, the except clause reports it
ConvertFails ==
    /\ fontOut = Nothing
    /\ \E e \in {"load_error", "save_error"} :
           fontOut' = Some([result |-> e, font |-> The(fontIn)])
    /\ UNCHANGED <<fontIn, fontColor, hexVars, pathVars, runVars>>

FontNext == ConvertSaves \/ ConvertFails

SpecFont == FontInit /\ [][FontNext]_vars

-----------------------------------------------------------------------------
(* platform.py's directories on every host *)

Platforms == {<<"l", "i", "n", "u", "x">>, <<"w", "i", "n", "3", "2">>,
              <<"d", "a", "r", "w", "i", "n">>}

\* C:\Users\X\AppData\Local
LocalX == << <<"C", ":", "\\">>, <<"U", "s", "e", "r", "s">>, <<"X">>,
             <<"A", "p", "p", "D", "a", "t", "a">>, <<"L", "o", "c", "a", "l">> >>
LocalD == << <<"D", ":", "\\">>, <<"L">> >>

\* LOCALAPPDATA: unset, set to the empty string, or set to a directory
EnvValues == {Nothing, Some(<<>>), Some(LocalX), Some(LocalD)}

sMyMod == <<"M", "y", "M", "o", "d">>
ModNames == {Nothing, Some(<<>>), Some(sMyMod), Some(sFroststrap)}

PathBoots == {BOOTSTRAPPERS[i] : i \in 1..Len(BOOTSTRAPPERS)} \cup {sSober}

PathInit ==
    /\ plat \in Platforms
    /\ envLocal \in EnvValues
    /\ pBoot \in PathBoots
    /\ pMod \in ModNames
    /\ pFontDir = Nothing /\ pRootDir = Nothing
    /\ pMainDest = Nothing /\ pMainJson = Nothing
    /\ HexIdle /\ FontIdle /\ RunIdle

\* _get_font_dir(pBoot, mod_name=pMod)
CallGetFontDir ==
    /\ pFontDir = Nothing
    /\ pFontDir' = Some(get_font_dir(plat, envLocal, pBoot, pMod))
    /\ UNCHANGED <<plat, envLocal, pBoot, pMod, pRootDir, pMainDest, pMainJson,
                   hexVars, fontVars, runVars>>

\* _get_root_dir(pBoot, mod_name=pMod)
CallGetRootDir ==
    /\ pRootDir = Nothing
    /\ pRootDir' = Some(get_root_dir(plat, envLocal, pBoot, pMod))
    /\ UNCHANGED <<plat, envLocal, pBoot, pMod, pFontDir, pMainDest, pMainJson,
                   hexVars, fontVars, runVars>>

\* main.py's own two directories for the same bootstrapper (it takes one of
\* BOOTSTRAPPERS and no modification name), when LOCALAPPDATA is set
CallMainDirs ==
    /\ pMainDest = Nothing
    /\ \E i \in 1..Len(BOOTSTRAPPERS) : BOOTSTRAPPERS[i] = pBoot
    /\ Truthy(envLocal)
    /\ pMainDest' = Some(MainDestDir(The(envLocal), pBoot))
    /\ pMainJson' = Some(MainJsonDir(The(envLocal), pBoot))
    /\ UNCHANGED <<plat, envLocal, pBoot, pMod, pFontDir, pRootDir,
                   hexVars, fontVars, runVars>>

PathNext == CallGetFontDir \/ CallGetRootDir \/ CallMainDirs

SpecPaths == PathInit /\ [][PathNext]_vars

-----------------------------------------------------------------------------
(* main.py: a run of the program *)

(***************************************************************************)
(* The files os.walk yields are a sequence of entries [dir, name]: dir is  *)
(* the directory relative to the root, name the file name.  os.walk goes   *)
(* top down: the files of the root come before those of a subdirectory.    *)
(* Every font file holds SampleFont.                                       *)
(***************************************************************************)
sSub == <<"s", "u", "b">>
FileNames == {<<"A", ".", "t", "t", "f">>, <<"B", ".", "T", "T", "F">>,
              <<"C", ".", "o", "t", "f">>,
              <<"n", "o", "t", "e", "s", ".", "t", "x", "t">>}
FileEntries == [dir : {<<>>, <<sSub>>}, name : FileNames]

FileLists ==
    UNION {{f \in [1..n -> FileEntries] :
               \A i, j \in 1..n : i < j => f[i] # f[j] /\ Len(f[i].dir) <= Len(f[j].dir)}
           : n \in 0..MaxFiles}

SampleFont == [glyphOrder |-> <<NotDef, "A", "B">>, CPAL |-> Nothing, COLR |-> Nothing]

IsTtfCaseSensitive(file) == EndsWith(file, sDotTtf)

\* file.lower().endswith(".ttf")
IsTtf(file) == EndsWith(Lower(file), sDotTtf)

\* output_path of convert_ttf_to_colr, for the entry it is given
OutputPath(entry) == [dir |-> entry.dir, name |-> WithSuffix(entry.name, sDotOtf)]

\* what follows font.save in convert_ttf_to_colr: nothing without a
\* bootstrapper, the warning without LOCALAPPDATA, else the copy, which
\* succeeds or raises
DeployOutcomes(boot, local_appdata) ==
    IF boot = Nothing THEN {"saved"}
    ELSE IF ~Truthy(local_appdata) THEN {"saved_no_appdata"}
         ELSE {"saved_copied", "saved_copy_error"}

\* the outcomes of one call of convert_ttf_to_colr
ConvertOutcomes(rgb_color, boot, local_appdata) ==
    {"load_error", "save_error"}
        \cup (IF Compilable(rgb_color) THEN DeployOutcomes(boot, local_appdata) ELSE {})

ErrorOutcomes == {"load_error", "save_error", "saved_copy_error"}
SavedOutcomes == {"saved", "saved_no_appdata", "saved_copied", "saved_copy_error"}

PcAfterConvertUncaught(outcome) ==
    IF outcome \in ErrorOutcomes THEN "crashed" ELSE "walk"

\* every outcome ends inside convert_ttf_to_colr (the except clauses print
\* and return), so the loop of process_directory goes on
PcAfterConvert(outcome) == "walk"

PcAfterReportIfAny(n) == IF n = 0 THEN "done" ELSE "manifest"

\* after the count is printed, process_directory goes on to the manifest
PcAfterReport(n) == "manifest"

ManifestTargetNoEnvCheck(boot, local_appdata, target_dir) ==
    IF boot # Nothing
    THEN Some(MainJsonDir(IF Truthy(local_appdata) THEN The(local_appdata) ELSE <<>>,
                          The(boot)))
    ELSE derive_buildericons_dir_from_path(target_dir)

\* the directory process_directory passes to _write_buildericons_json, or
\* None when it prints a warning instead
ManifestTarget(boot, local_appdata, target_dir) ==
    IF boot # Nothing
    THEN IF ~Truthy(local_appdata)
         THEN Nothing
         ELSE Some(MainJsonDir(The(local_appdata), The(boot)))
    ELSE derive_buildericons_dir_from_path(target_dir)

RunInputs == <<argColor, argBoot, argPath, rootIsDir, localAppData, files>>
Others == <<hexVars, fontVars, pathVars>>

\* __main__: args.color is empty, or hex_to_rgb returns
ParseColorOk ==
    /\ pc = "parse_color"
    /\ argColor # <<>> => hex_to_rgb(argColor).ok
    /\ rgb' = IF argColor # <<>> THEN Some(hex_to_rgb(argColor).value) ELSE Nothing
    /\ pc' = "parse_bootstrapper"
    /\ UNCHANGED <<RunInputs, Others, bootstrapper, idx, count, invoked, fontsRead,
                   saved, copied, reported, manifestTriggers, writeCalls, manifests,
                   exitStatus>>

\* __main__: hex_to_rgb raises ValueError, sys.exit(1)
ParseColorError ==
    /\ pc = "parse_color"
    /\ argColor # <<>> /\ ~hex_to_rgb(argColor).ok
    /\ pc' = "exited"
    /\ exitStatus' = Some(1)
    /\ UNCHANGED <<RunInputs, Others, rgb, bootstrapper, idx, count, invoked,
                   fontsRead, saved, copied, reported, manifestTriggers, writeCalls,
                   manifests>>

\* __main__: no bootstrapper given, or canonicalize_bootstrapper returns
ParseBootstrapperOk ==
    /\ pc = "parse_bootstrapper"
    /\ Truthy(argBoot) => canonicalize_bootstrapper(argBoot).ok
    /\ bootstrapper' = IF Truthy(argBoot)
                       THEN canonicalize_bootstrapper(argBoot).value
                       ELSE Nothing
    /\ pc' = "check_dir"
    /\ UNCHANGED <<RunInputs, Others, rgb, idx, count, invoked, fontsRead, saved,
                   copied, reported, manifestTriggers, writeCalls, manifests,
                   exitStatus>>

\* __main__: canonicalize_bootstrapper raises ValueError, sys.exit(1)
ParseBootstrapperError ==
    /\ pc = "parse_bootstrapper"
    /\ Truthy(argBoot) /\ ~canonicalize_bootstrapper(argBoot).ok
    /\ pc' = "exited"
    /\ exitStatus' = Some(1)
    /\ UNCHANGED <<RunInputs, Others, rgb, bootstrapper, idx, count, invoked,
                   fontsRead, saved, copied, reported, manifestTriggers, writeCalls,
                   manifests>>

\* process_directory: the root is no directory, sys.exit(1)
CheckDirMissing ==
    /\ pc = "check_dir"
    /\ ~rootIsDir
    /\ pc' = "exited"
    /\ exitStatus' = Some(1)
    /\ UNCHANGED <<RunInputs, Others, rgb, bootstrapper, idx, count, invoked,
                   fontsRead, saved, copied, reported, manifestTriggers, writeCalls,
                   manifests>>

\* process_directory: the root is a directory, the walk starts
CheckDirOk ==
    /\ pc = "check_dir"
    /\ rootIsDir
    /\ pc' = "walk"
    /\ idx' = 1
    /\ count' = 0
    /\ UNCHANGED <<RunInputs, Others, rgb, bootstrapper, invoked, fontsRead, saved,
                   copied, reported, manifestTriggers, writeCalls, manifests,
                   exitStatus>>

\* the loop of process_directory on a file that is no .ttf
VisitOther ==
    /\ pc = "walk"
    /\ idx <= Len(files)
    /\ ~IsTtf(files[idx].name)
    /\ idx' = idx + 1
    /\ UNCHANGED <<RunInputs, Others, pc, rgb, bootstrapper, count, invoked,
                   fontsRead, saved, copied, reported, manifestTriggers, writeCalls,
                   manifests, exitStatus>>

\* the loop of process_directory on a .ttf file: convert_ttf_to_colr, whole,
\* then count += 1
VisitTtf ==
    /\ pc = "walk"
    /\ idx <= Len(files)
    /\ IsTtf(files[idx].name)
    /\ rgb # Nothing
    /\ \E outcome \in ConvertOutcomes(The(rgb), bootstrapper, localAppData) :
          /\ invoked' = Append(invoked, [file |-> idx, outcome |-> outcome])
          /\ fontsRead' = fontsRead \cup {files[idx]}
          /\ saved' = IF outcome \in SavedOutcomes
                      THEN saved \cup {[path |-> OutputPath(files[idx]),
                                        font |-> Recolor(SampleFont, The(rgb))]}
                      ELSE saved
          /\ copied' = IF outcome = "saved_copied"
                       THEN copied \cup
                            {[dir  |-> MainDestDir(The(localAppData), The(bootstrapper)),
                              name |-> OutputPath(files[idx]).name]}
                       ELSE copied
          /\ pc' = PcAfterConvert(outcome)
    /\ count' = count + 1
    /\ idx' = idx + 1
    /\ UNCHANGED <<RunInputs, Others, rgb, bootstrapper, reported, manifestTriggers,
                   writeCalls, manifests, exitStatus>>

\* convert_ttf_to_colr called with rgb_color None: "r, g, b = rgb_color"
\* raises TypeError before the try block, and the interpreter exits with 1
VisitTtfNoColor ==
    /\ pc = "walk"
    /\ idx <= Len(files)
    /\ IsTtf(files[idx].name)
    /\ rgb = Nothing
    /\ invoked' = Append(invoked, [file |-> idx, outcome |-> "type_error"])
    /\ pc' = "crashed"
    /\ exitStatus' = Some(1)
    /\ UNCHANGED <<RunInputs, Others, rgb, bootstrapper, idx, count, fontsRead,
                   saved, copied, reported, manifestTriggers, writeCalls, manifests>>

\* process_directory after the loop: the number of files is printed
Report ==
    /\ pc = "walk"
    /\ idx > Len(files)
    /\ reported' = Some(count)
    /\ pc' = PcAfterReport(count)
    /\ UNCHANGED <<RunInputs, Others, rgb, bootstrapper, idx, count, invoked,
                   fontsRead, saved, copied, manifestTriggers, writeCalls, manifests,
                   exitStatus>>

\* the manifest step with a directory: _write_buildericons_json, whole; the
\* write succeeds, or it raises and the error is printed
ManifestWrite ==
    /\ pc = "manifest"
    /\ ManifestTarget(bootstrapper, localAppData, argPath) # Nothing
    /\ LET json_dir == The(ManifestTarget(bootstrapper, localAppData, argPath))
       IN  /\ writeCalls' = Append(writeCalls, json_dir)
           /\ \E written \in BOOLEAN :
                 manifests' = IF written THEN manifests \cup {json_dir} ELSE manifests
    /\ manifestTriggers' = manifestTriggers + 1
    /\ pc' = "done"
    /\ exitStatus' = Some(0)
    /\ UNCHANGED <<RunInputs, Others, rgb, bootstrapper, idx, count, invoked,
                   fontsRead, saved, copied, reported>>

\* the manifest step without a directory: a warning is printed
ManifestSkip ==
    /\ pc = "manifest"
    /\ ManifestTarget(bootstrapper, localAppData, argPath) = Nothing
    /\ manifestTriggers' = manifestTriggers + 1
    /\ pc' = "done"
    /\ exitStatus' = Some(0)
    /\ UNCHANGED <<RunInputs, Others, rgb, bootstrapper, idx, count, invoked,
                   fontsRead, saved, copied, reported, writeCalls, manifests>>

\* process_directory
WalkNext ==
    \/ CheckDirMissing \/ CheckDirOk
    \/ VisitOther \/ VisitTtf
    \/ Report
    \/ ManifestWrite \/ ManifestSkip

\* the program, from its arguments
MainNext ==
    \/ ParseColorOk \/ ParseColorError
    \/ ParseBootstrapperOk \/ ParseBootstrapperError
    \/ VisitTtfNoColor
    \/ WalkNext

RunStart ==
    /\ idx = 0 /\ count = 0 /\ invoked = <<>> /\ fontsRead = {}
    /\ saved = {} /\ copied = {} /\ reported = Nothing
    /\ manifestTriggers = 0 /\ writeCalls = <<>> /\ manifests = {}
    /\ exitStatus = Nothing
    /\ HexIdle /\ FontIdle /\ PathIdle

\* the root directories of the model
RootD == <<Anchor, <<"D">>>>
RootPaths ==
    { RootD,
      RootD \o marker_parts,
      <<Anchor>> \o LowerAll(marker_parts),
      RootD \o marker_parts \o <<sFont>>,
      RootD \o marker_parts \o <<sFontLower, sSub>>,
      <<Anchor, <<"t", "m", "p">>, sBuilderIconsLower>>,
      <<Anchor, <<"x">>, sBuilderIcons, sFont>> }

\* well-formed --color and --bootstrapper arguments
WalkColorArgs ==
    { <<"#", "0", "0", "0", "0", "8", "B">>, <<"F", "F", "0", "0", "0", "0">> }
WalkBootArgs ==
    { Nothing, Some(sFroststrapLower),
      Some(<<" ", "B", "L", "O", "X", "S", "T", "R", "A", "P">>) }

\* process_directory(target_dir, rgb_color, bootstrapper) as __main__ calls it
\* with a color and a canonical bootstrapper or None, parsed from well-formed
\* arguments
WalkInit ==
    /\ argColor \in WalkColorArgs
    /\ argBoot \in WalkBootArgs
    /\ rgb = Some(hex_to_rgb(argColor).value)
    /\ bootstrapper = canonicalize_bootstrapper(argBoot).value
    /\ argPath \in RootPaths
    /\ rootIsDir \in BOOLEAN
    /\ localAppData \in {Nothing, Some(<<>>), Some(LocalX)}
    /\ files \in FileLists
    /\ pc = "check_dir"
    /\ RunStart

Spec == WalkInit /\ [][WalkNext]_vars

\* the --color and --bootstrapper arguments of a run: well-formed ones, and
\* a color of five digits, one with a letter that is no digit, two with
\* signs, the empty one, an empty bootstrapper and an unknown one
ColorArgs ==
    { <<"#", "0", "0", "0", "0", "8", "B">>,
      <<"1", "2", "3", "4", "5">>,
      <<"0", "0", "g", "0", "0", "0">>,
      <<"-", "1", "-", "1", "-", "1">>,
      <<"+", "1", "+", "2", "+", "3">>,
      <<>> }
BootArgs == WalkBootArgs \cup {Some(<<>>), Some(sSober)}

\* python main.py --path argPath --color argColor [--bootstrapper argBoot]
MainInit ==
    /\ argColor \in ColorArgs
    /\ argBoot \in BootArgs
    /\ argPath \in {RootD, RootD \o marker_parts}
    /\ rootIsDir \in BOOLEAN
    /\ localAppData \in {Nothing, Some(LocalX)}
    /\ files \in FileLists
    /\ pc = "parse_color"
    /\ rgb = Nothing /\ bootstrapper = Nothing
    /\ RunStart

SpecMain == MainInit /\ [][MainNext]_vars

-----------------------------------------------------------------------------
(* What the claims are stated with *)

HexLowerCase == <<"0","1","2","3","4","5","6","7","8","9","a","b","c","d","e","f">>
HexUpperCase == <<"0","1","2","3","4","5","6","7","8","9","A","B","C","D","E","F">>

\* c is one of 0-9, a-f, A-F
InHexAlphabet(c) == \E v \in 1..16 : HexLowerCase[v] = c \/ HexUpperCase[v] = c

\* s is exactly six hexadecimal digits
SixHexDigits(s) == Len(s) = 6 /\ \A i \in 1..6 : InHexAlphabet(s[i])

\* the base-16 value of the two characters of s that start at position i
ByteAt(s, i) ==
    LET digit(c) == (CHOOSE v \in 1..16 : HexLowerCase[v] = c \/ HexUpperCase[v] = c) - 1
    IN  16 * digit(s[i]) + digit(s[i + 1])

-----------------------------------------------------------------------------
(* Claims about hex_to_rgb, under SpecHex *)

\* C6: for every string of exactly 6 hexadecimal digits, with or without a
\* leading "#", hex_to_rgb succeeds and returns (r, g, b), each in 0..255, the
\* base-16 values of the first, second and third pair of digits, in that order.
C6_HexDecodes ==
    hexOut # Nothing =>
        LET h == IF hexIn # <<>> /\ hexIn[1] = "#" THEN Tail(hexIn) ELSE hexIn
            out == The(hexOut)
        IN  SixHexDigits(h) =>
                /\ out.ok
                /\ out.value = <<ByteAt(h, 1), ByteAt(h, 3), ByteAt(h, 5)>>
                /\ \A i \in 1..3 : out.value[i] \in 0..255

\* "#fB00Bf" has been parsed to (251, 0, 191)
C6_Witness ==
    /\ hexIn = <<"#", "f", "B", "0", "0", "B", "f">>
    /\ hexOut = Some([ok |-> TRUE, value |-> <<251, 0, 191>>])

\* C7: hex_to_rgb fails for every string that, once trimmed and stripped of
\* its "#" prefix, is not exactly 6 hexadecimal digits: so no successful parse
\* returns a channel outside 0..255.
C7_RejectsAllElse ==
    hexOut # Nothing =>
        LET out == The(hexOut)
        IN  /\ ~SixHexDigits(LStrip(Strip(hexIn), {"#"})) => ~out.ok
            /\ out.ok => \A i \in 1..3 : out.value[i] \in 0..255

-----------------------------------------------------------------------------
(* Claims about the recolored font, under SpecFont *)

\* C1: a font whose glyph order has N unique names, one of them .notdef, is
\* saved with one palette of one entry, (r, g, b, 255), and a layer map of
\* exactly N-1 keys: each glyph but .notdef has the single layer named after
\* itself with palette index 0, and .notdef has no entry.
C1_OneLayerPerGlyph ==
    (fontOut # Nothing /\ The(fontOut).result = "saved") =>
        LET order  == The(fontIn).glyphOrder
            glyphs == {order[i] : i \in 1..Len(order)}
            font   == The(fontOut).font
        IN  NotDef \in glyphs =>
                /\ font.CPAL # Nothing
                /\ The(font.CPAL).numPaletteEntries = 1
                /\ The(font.CPAL).palettes =
                       << << [red |-> fontColor[1], green |-> fontColor[2],
                              blue |-> fontColor[3], alpha |-> 255] >> >>
                /\ font.COLR # Nothing
                /\ LET layers == The(font.COLR).ColorLayers
                   IN  /\ Cardinality(DOMAIN layers) = Len(order) - 1
                       /\ DOMAIN layers = glyphs \ {NotDef}
                       /\ \A g \in DOMAIN layers :
                              layers[g] = <<[name |-> g, colorID |-> 0]>>

\* a font of three glyphs that already held color tables has been saved
C1_Witness ==
    /\ fontIn # Nothing /\ fontOut # Nothing
    /\ The(fontIn).glyphOrder = <<NotDef, "A", "space">>
    /\ The(fontIn).COLR = Some(OldCOLR)
    /\ The(fontOut).result = "saved"
    /\ DOMAIN The(The(fontOut).font.COLR).ColorLayers = {"A", "space"}

-----------------------------------------------------------------------------
(* Claims about the deployment directories, under SpecPaths *)

\* L / B / Modifications / [M] / ExtraContent / ... / BuilderIcons
ExpectedManifestDir(L, B, M) ==
    L \o <<B, sModifications>>
      \o (IF B = sFroststrap /\ M # Nothing /\ The(M) # <<>> THEN <<The(M)>> ELSE <<>>)
      \o <<sExtraContent, sLuaPackages, sPackages, sIndex, sBuilderIcons, sBuilderIcons>>

\* C8: on a Windows-like host with LOCALAPPDATA set to L, the font directory
\* for bootstrapper B and modification name M is L / B / Modifications / [M] /
\* ExtraContent / LuaPackages / Packages / _Index / BuilderIcons /
\* BuilderIcons / Font, with M inserted iff B is Froststrap and M is not
\* empty, and the manifest directory is its parent, for every B and M.
\* main.py's own directories are those of an absent M.
C8_FontDirTemplate ==
    (StartsWith(plat, sWin) /\ envLocal # Nothing /\ The(envLocal) # <<>>) =>
        LET L == The(envLocal)
        IN  /\ pFontDir # Nothing =>
                The(pFontDir) = Some(ExpectedManifestDir(L, pBoot, pMod) \o <<sFont>>)
            /\ pRootDir # Nothing =>
                The(pRootDir) = Some(ExpectedManifestDir(L, pBoot, pMod))
            /\ pMainDest # Nothing =>
                /\ The(pMainDest) = ExpectedManifestDir(L, pBoot, Nothing) \o <<sFont>>
                /\ The(pMainJson) = ExpectedManifestDir(L, pBoot, Nothing)

\* the scenario of the specification: Froststrap with MyMod under
\* C:\Users\X\AppData\Local, and the manifest directory one level above Font
C8_Witness ==
    /\ plat = <<"w", "i", "n", "3", "2">> /\ envLocal = Some(LocalX)
    /\ pBoot = sFroststrap /\ pMod = Some(sMyMod)
    /\ pFontDir = Some(Some(
           LocalX \o <<sFroststrap, sModifications, sMyMod>> \o CommonSubpath \o <<sFont>>))
    /\ pRootDir = Some(Some(
           LocalX \o <<sFroststrap, sModifications, sMyMod>> \o CommonSubpath))
    /\ pMainDest # Nothing

-----------------------------------------------------------------------------
(* Claims about process_directory, under Spec *)

\* the name ends in ".ttf", whatever the case of its letters
EndsInTtf(name) ==
    /\ Len(name) >= 4
    /\ name[Len(name) - 3] = "."
    /\ name[Len(name) - 2] \in {"t", "T"}
    /\ name[Len(name) - 1] \in {"t", "T"}
    /\ name[Len(name)] \in {"f", "F"}

\* the name ends in ".otf", whatever the case of its letters
EndsInOtf(name) ==
    /\ Len(name) >= 4
    /\ name[Len(name) - 3] = "."
    /\ name[Len(name) - 2] \in {"o", "O"}
    /\ name[Len(name) - 1] \in {"t", "T"}
    /\ name[Len(name)] \in {"f", "F"}

\* the positions in the walk of the files passed to the recolorer so far
Passed == {invoked[k].file : k \in 1..Len(invoked)}

TtfFiles == {i \in 1..Len(files) : EndsInTtf(files[i].name)}

\* the walk has visited every file
WalkOver == idx = Len(files) + 1

\* C2: an error raised while loading, mutating, saving or deploying one file
\* is caught inside the recolorer: whatever the outcomes so far, every .ttf
\* file visited has been passed to it, the walk goes on to its end, and the
\* process is not terminated by such an error.
C2_PerFileIsolation ==
    /\ pc \in {"walk", "manifest", "done"} =>
           /\ Passed = {i \in TtfFiles : i < idx}
           /\ Len(invoked) = Cardinality(Passed)
    /\ (\E k \in 1..Len(invoked) : invoked[k].outcome \in ErrorOutcomes) =>
           /\ pc \in {"walk", "manifest", "done"}
           /\ exitStatus \in {Nothing, Some(0)}
           /\ pc = "walk" => idx <= Len(files) + 1
           /\ pc \in {"manifest", "done"} => WalkOver /\ Passed = TtfFiles

\* the first of two fonts failed to load, the second was still recolored and
\* the run ended normally
C2_Witness ==
    /\ pc = "done" /\ exitStatus = Some(0)
    /\ Len(invoked) = 2
    /\ invoked[1].outcome = "load_error"
    /\ invoked[2].outcome = "saved_copy_error"
    /\ Cardinality(saved) = 1

\* C3: in every run on an existing root directory the manifest step is
\* triggered exactly once, and only after every file of the walk has been
\* visited, whatever the number of files processed, zero included.  (The step
\* calls _write_buildericons_json when it has a directory, and only then.)
C3_ManifestOnce ==
    /\ manifestTriggers <= 1
    /\ Len(writeCalls) <= manifestTriggers
    /\ manifestTriggers = 1 => WalkOver /\ reported = Some(count)
    /\ pc = "done" => manifestTriggers = 1
    /\ pc = "manifest" => manifestTriggers = 0 /\ WalkOver

\* a run that processed no file at all (the two files are no fonts) has
\* triggered the manifest once
C3_Witness ==
    /\ pc = "done" /\ Len(files) = 2 /\ count = 0 /\ invoked = <<>>
    /\ manifestTriggers = 1 /\ Len(writeCalls) = 1

\* C5 as stated: the recolorer is invoked exactly once for each file whose
\* name ends in a supported font extension, TTF and OTF both, matched
\* case-insensitively, and for no other file; the count reported is the
\* number of such files.
C5_TtfAndOtfProcessed ==
    pc = "done" =>
        LET fonts == {i \in 1..Len(files) :
                         EndsInTtf(files[i].name) \/ EndsInOtf(files[i].name)}
        IN  /\ Passed = fonts
            /\ Len(invoked) = Cardinality(fonts)
            /\ reported = Some(Cardinality(fonts))

\* C5 as amended: the recolorer is invoked exactly once for each file whose
\* name ends in ".ttf", matched case-insensitively, and for no other file
\* (a .otf or .txt file is not an input); the count reported is the number
\* of such files.
C5_OnlyTtfProcessed ==
    /\ Passed \subseteq TtfFiles
    /\ Len(invoked) = Cardinality(Passed)
    /\ pc \in {"manifest", "done"} =>
           /\ Passed = TtfFiles
           /\ count = Cardinality(TtfFiles)
           /\ reported = Some(count)

\* B.TTF was recolored, C.otf was not, and one file was reported
C5_Witness ==
    /\ pc = "done"
    /\ Len(files) = 2
    /\ files[1].name = <<"B", ".", "T", "T", "F">>
    /\ files[2].name = <<"C", ".", "o", "t", "f">>
    /\ Passed = {1}
    /\ reported = Some(1)

\* the last six parts of the path are the marker sequence, whatever their case
EndsWithMarker(p) ==
    /\ Len(p) >= 6
    /\ LowerAll(SubSeq(p, Len(p) - 5, Len(p))) =
           LowerAll(<<sExtraContent, sLuaPackages, sPackages, sIndex,
                      sBuilderIcons, sBuilderIcons>>)

\* C9 as stated: without a bootstrapper, the manifest goes to the root
\* directory if its path ends with the marker sequence, and no manifest is
\* written for any other root path.
C9_MarkerOrNothing ==
    (pc = "done" /\ bootstrapper = Nothing) =>
        IF EndsWithMarker(argPath)
        THEN writeCalls = <<argPath>> /\ manifests \subseteq {argPath}
        ELSE writeCalls = <<>> /\ manifests = {}

\* the proper prefixes of p, p itself included
Prefixes(p) == {SubSeq(p, 1, n) : n \in 1..Len(p)}

\* C9 as amended: without a bootstrapper the manifest destination is derived
\* from the root path only.  It is the root's parent when the root is named
\* Font inside a directory named BuilderIcons; else the root itself when its
\* last part is BuilderIcons (so also when it ends with the whole marker
\* sequence); else the deepest ancestor of the root whose parts end with the
\* marker sequence; names are compared case-insensitively.  The manifest
\* write is directed there once; when none of the three applies, no manifest
\* is written.
C9_DerivedDestination ==
    (pc = "done" /\ bootstrapper = Nothing) =>
        LET p == argPath
            marked == {a \in Prefixes(p) : EndsWithMarker(a)}
        IN  /\ manifests \subseteq {writeCalls[k] : k \in 1..Len(writeCalls)}
            /\ IF Lower(Name(p)) = sFontLower /\ Lower(Name(Parent(p))) = sBuilderIconsLower
               THEN writeCalls = <<Parent(p)>>
               ELSE IF Lower(Name(p)) = sBuilderIconsLower
                    THEN writeCalls = <<p>>
                    ELSE IF marked # {}
                         THEN writeCalls =
                                  <<CHOOSE a \in marked : \A b \in marked : Len(b) <= Len(a)>>
                         ELSE writeCalls = <<>> /\ manifests = {}
            /\ EndsWithMarker(p) => writeCalls = <<p>>

\* a root below the marker directory: the manifest was written to the
\* ancestor that ends with the marker sequence
C9_Witness ==
    /\ pc = "done" /\ bootstrapper = Nothing
    /\ argPath = RootD \o marker_parts \o <<sFontLower, sSub>>
    /\ writeCalls = <<RootD \o marker_parts>>
    /\ manifests = {RootD \o marker_parts}

\* C10: with a bootstrapper and LOCALAPPDATA unset, no font is copied and no
\* manifest is written in the whole run, every .ttf file is still counted,
\* each one that loads and saves is saved next to its source, and the run
\* ends with exit status 0.
C10_NoAppDataNoDeployment ==
    (bootstrapper # Nothing /\ localAppData = Nothing) =>
        /\ copied = {} /\ manifests = {} /\ writeCalls = <<>>
        /\ \A k \in 1..Len(invoked) :
               invoked[k].outcome \notin {"load_error", "save_error"} =>
                   \E o \in saved :
                       /\ o.path.dir = files[invoked[k].file].dir
                       /\ o.path.name = WithSuffix(files[invoked[k].file].name, sDotOtf)
                       /\ The(o.font.CPAL).numPaletteEntries = 1
        /\ pc \in {"manifest", "done"} =>
               /\ Passed = TtfFiles
               /\ count = Cardinality(TtfFiles)
               /\ reported = Some(count)
        /\ pc = "done" => exitStatus = Some(0)
        /\ pc # "exited" => exitStatus # Some(1)

\* two fonts were converted and counted, nothing was deployed
C10_Witness ==
    /\ pc = "done" /\ exitStatus = Some(0)
    /\ bootstrapper = Some(sFroststrap) /\ localAppData = Nothing
    /\ Len(invoked) = 2
    /\ \A k \in 1..2 : invoked[k].outcome = "saved_no_appdata"
    /\ reported = Some(2)
    /\ Cardinality(saved) = 2
    /\ copied = {} /\ manifests = {}

-----------------------------------------------------------------------------
(* Claims about the whole program, under SpecMain *)

\* the --color argument is six hexadecimal digits, with an optional "#"
\* before them and whitespace around
WellFormedColor(s) == SixHexDigits(LStrip(Strip(s), {"#"}))

\* the --bootstrapper argument, if any, is one of BOOTSTRAPPERS, whatever its
\* case
RecognizedBootstrapper(b) ==
    \/ b = Nothing
    \/ The(b) = <<>>
    \/ \E i \in 1..Len(BOOTSTRAPPERS) : Lower(BOOTSTRAPPERS[i]) = Lower(Strip(The(b)))

ArgumentError ==
    \/ ~WellFormedColor(argColor)
    \/ ~RecognizedBootstrapper(argBoot)
    \/ ~rootIsDir

\* C4: with a malformed color, an unrecognized bootstrapper or a root that is
\* no directory, the process ends with exit status 1 before any font file is
\* read, any output font or manifest is written, or any file is copied.
C4_ArgumentErrorsFatal ==
    ArgumentError =>
        /\ fontsRead = {} /\ saved = {} /\ copied = {}
        /\ writeCalls = <<>> /\ manifests = {}
        /\ pc \in {"done", "exited", "crashed"} => exitStatus = Some(1)

=============================================================================
